---- MODULE Spec2Model ----
(***************************************************************************)
(* Model of the Anchor program `vault` (programs/vault/src/lib.rs).        *)
(*                                                                         *)
(* The state is the ledger slice the program touches: for every account    *)
(* its lamports, its owning program and its data.  One action per          *)
(* instruction (initialize, deposit, withdraw, close).  An instruction is  *)
(* the account validation generated by #[derive(Accounts)], the handler,   *)
(* and the exit step (serialisation / `close = user`), run as one          *)
(* transaction: an Err(..) anywhere discards every account change.         *)
(*                                                                         *)
(* Lamports are counted in model units and u64 is narrowed to LamportBits  *)
(* bits; bump seeds range over 0..MaxBump instead of 0..255.               *)
(***************************************************************************)
EXTENDS Integers, Sequences, FiniteSets, TLC

\* ---------------------------------------------------------------- bounds
NumUsers == 2
MaxBump == 3
MaxAmount == 3
LamportBits == 4

U64_MAX == 2 ^ LamportBits - 1

\* ------------------------------------------------------------- constants
\* VaultState::INIT_SPACE = 8 + 1 * 2
DISCRIMINATOR_LEN == 8
INIT_SPACE == DISCRIMINATOR_LEN + 1 * 2

\* Rent::minimum_balance(data_len) in model units: one unit keeps an empty
\* account alive, every RentBytesPerUnit bytes of data cost one more.
RentBytesPerUnit == 10
minimum_balance(data_len) == 1 + data_len \div RentBytesPerUnit

\* ------------------------------------------------------------ derivation
\* Namespace tags of the seeds: a wallet key, b"state", b"vault".
TagUser == 0
TagState == 1
TagVault == 2
NumTags == TagVault + 1

\* Mutant of Hash: the seed (the owner's key, the record's address) left out
\* of the hashed seeds.
HashNoSeed(tag, seed, bump) == bump * NumTags + tag

\* The hash of (tag, seed, bump, program id), as an injective encoding.
Hash(tag, seed, bump) == (seed * (MaxBump + 1) + bump) * NumTags + tag

\* Whether a 32-byte value is a point of the ed25519 curve: a fixed predicate.
is_on_curve(h) == h % 5 = 1

NoAddress == 0 - 1

\* Mutant of create_program_address: the address computed from the tag and
\* the bump alone.
create_program_addressNoSeed(tag, seed, bump) ==
    IF bump \notin 0..MaxBump \/ is_on_curve(Hash(tag, 0, bump))
    THEN NoAddress
    ELSE Hash(tag, 0, bump)

\* Pubkey::create_program_address: the address for the given bump, or an
\* error (NoAddress) when the hash is on the curve.
create_program_address(tag, seed, bump) ==
    IF bump \notin 0..MaxBump \/ is_on_curve(Hash(tag, seed, bump))
    THEN NoAddress
    ELSE Hash(tag, seed, bump)

\* Pubkey::find_program_address: bumps are tried from the highest downward.
RECURSIVE find_from(_, _, _)
find_from(tag, seed, bump) ==
    IF bump < 0 THEN [address |-> NoAddress, bump |-> NoAddress]
    ELSE IF create_program_address(tag, seed, bump) # NoAddress
         THEN [address |-> create_program_address(tag, seed, bump), bump |-> bump]
         ELSE find_from(tag, seed, bump - 1)

find_program_address(tag, seed) == find_from(tag, seed, MaxBump)

\* ---------------------------------------------------------------- accounts
Users == {NumTags * i : i \in 1..NumUsers}

\* The addresses the program derives for an owner: seeds [b"state", user]
\* for the record, [b"vault", record address] for the vault.
StatePdas == [u \in Users |-> find_program_address(TagState, u).address]
VaultPdas == [u \in Users |-> find_program_address(TagVault, StatePdas[u]).address]
StatePda(user) == StatePdas[user]
VaultPda(user) == VaultPdas[user]

Pdas == {StatePda(u) : u \in Users} \cup {VaultPda(u) : u \in Users}
Accounts == Users \cup Pdas

SYSTEM_PROGRAM == "system"
VAULT_PROGRAM == "vault"

\* Account data: empty, or the 8-byte discriminator (one cell) followed by
\* the two u8 fields of VaultState.
NoData == <<>>
VaultStateTag == 77
VaultStateData(vault_bump, state_bump) == <<VaultStateTag, vault_bump, state_bump>>
data_len(d) == IF d = NoData THEN 0 ELSE DISCRIMINATOR_LEN + (Len(d) - 1)

VARIABLES lamports, owner, data, last, pre, scen, active, opening, net, written

vars == <<lamports, owner, data, last, pre, scen, active, opening, net, written>>

\* The ledger as one value, for the pure step functions below.
World == [lamports |-> lamports, owner |-> owner, data |-> data]

\* A step of an instruction yields Ok and the ledger it leaves, or an error.
OK == "Ok"
Step(w) == [err |-> OK, w |-> w]
Fail(e, w) == [err |-> e, w |-> w]

\* The `?` operator: the first error ends the instruction.
Failed(res) == res.err # OK

\* ---------------------------------------------------------- system program
\* Mutant of transfer: a source that holds too little is emptied instead of
\* the transfer being refused.
transferSaturating(w, from, to, amount, signers) ==
    LET moved == IF amount > w.lamports[from] THEN w.lamports[from] ELSE amount
    IN  IF from \notin signers THEN Fail("MissingRequiredSignature", w)
        ELSE IF from # to /\ w.lamports[to] + moved > U64_MAX
             THEN Fail("ArithmeticOverflow", w)
        ELSE LET debited == [w.lamports EXCEPT ![from] = @ - moved]
             IN  Step([w EXCEPT !.lamports = [debited EXCEPT ![to] = @ + moved]])

\* Mutant of transfer: the credit is added modulo 2^64, without the check.
transferWrapping(w, from, to, amount, signers) ==
    IF from \notin signers THEN Fail("MissingRequiredSignature", w)
    ELSE IF w.data[from] # NoData THEN Fail("InvalidArgument", w)
    ELSE IF amount > w.lamports[from] THEN Fail("InsufficientLamports", w)
    ELSE LET debited == [w.lamports EXCEPT ![from] = @ - amount]
         IN  Step([w EXCEPT !.lamports =
                     [debited EXCEPT ![to] = (@ + amount) % (U64_MAX + 1)]])

\* Mutant of transfer: the source's balance is not compared with the amount.
transferUnchecked(w, from, to, amount, signers) ==
    IF from \notin signers THEN Fail("MissingRequiredSignature", w)
    ELSE IF w.data[from] # NoData THEN Fail("InvalidArgument", w)
    ELSE IF from # to /\ w.lamports[to] + amount > U64_MAX
         THEN Fail("ArithmeticOverflow", w)
    ELSE LET debited == [w.lamports EXCEPT ![from] = @ - amount]
         IN  Step([w EXCEPT !.lamports = [debited EXCEPT ![to] = @ + amount]])

\* system_program::transfer(CpiContext { from, to }, amount), with the
\* accounts that sign the CPI.
transfer(w, from, to, amount, signers) ==
    IF from \notin signers THEN Fail("MissingRequiredSignature", w)
    ELSE IF w.data[from] # NoData THEN Fail("InvalidArgument", w)
    ELSE IF amount > w.lamports[from] THEN Fail("InsufficientLamports", w)
    ELSE IF from # to /\ w.lamports[to] + amount > U64_MAX
         THEN Fail("ArithmeticOverflow", w)
    ELSE LET debited == [w.lamports EXCEPT ![from] = @ - amount]
         IN  Step([w EXCEPT !.lamports = [debited EXCEPT ![to] = @ + amount]])

Zeroed(space) == [i \in 1..(space - DISCRIMINATOR_LEN + 1) |-> 0]

\* system_program::allocate: the account must sign, be empty and be owned
\* by the system program.
allocate(w, acct, space, signers) ==
    IF acct \notin signers THEN Fail("MissingRequiredSignature", w)
    ELSE IF w.data[acct] # NoData \/ w.owner[acct] # SYSTEM_PROGRAM
         THEN Fail("AccountAlreadyInUse", w)
    ELSE Step([w EXCEPT !.data[acct] = Zeroed(space)])

\* system_program::assign.
assign(w, acct, program, signers) ==
    IF acct \notin signers THEN Fail("MissingRequiredSignature", w)
    ELSE Step([w EXCEPT !.owner[acct] = program])

\* system_program::create_account.
create_account(w, from, to, amount, space, program, signers) ==
    IF w.lamports[to] > 0 THEN Fail("AccountAlreadyInUse", w)
    ELSE LET r1 == allocate(w, to, space, signers)
             r2 == IF Failed(r1) THEN r1 ELSE assign(r1.w, to, program, signers)
         IN  IF Failed(r2) THEN r2 ELSE transfer(r2.w, from, to, amount, signers)

\* ------------------------------------------------------------ account types
\* Signer<'info>: the account signed the transaction.
SignerCheck(w, acct, signers) ==
    IF acct \in signers THEN Step(w) ELSE Fail("AccountNotSigner", w)

\* SystemAccount<'info>: the account is owned by the system program.
SystemAccountCheck(w, acct) ==
    IF w.owner[acct] = SYSTEM_PROGRAM THEN Step(w)
    ELSE Fail("AccountNotSystemOwned", w)

\* Account<'info, VaultState>: the account exists, is owned by this program
\* and carries the VaultState discriminator.
AccountCheck(w, acct) ==
    IF w.owner[acct] = SYSTEM_PROGRAM /\ w.lamports[acct] = 0
    THEN Fail("AccountNotInitialized", w)
    ELSE IF w.owner[acct] # VAULT_PROGRAM
         THEN Fail("AccountOwnedByWrongProgram", w)
    ELSE IF w.data[acct] = NoData THEN Fail("AccountDiscriminatorNotFound", w)
    ELSE IF w.data[acct][1] # VaultStateTag
         THEN Fail("AccountDiscriminatorMismatch", w)
    ELSE Step(w)

\* The fields of a deserialised VaultState.
vault_bump(w, acct) == w.data[acct][2]
state_bump(w, acct) == w.data[acct][3]

\* seeds = [..], bump = b: the account is the address the seeds and the
\* stored bump derive.
SeedsCheck(w, acct, tag, seed, bump) ==
    IF create_program_address(tag, seed, bump) = NoAddress
       \/ acct # create_program_address(tag, seed, bump)
    THEN Fail("ConstraintSeeds", w)
    ELSE Step(w)

\* seeds = [..], bump: the account is the canonical address of the seeds.
CanonicalSeedsCheck(w, acct, tag, seed) ==
    IF acct # find_program_address(tag, seed).address
    THEN Fail("ConstraintSeeds", w)
    ELSE Step(w)

\* The addresses a CPI treats as signers: the transaction's signers and the
\* address derived from the signer seeds handed to new_with_signer.
PdaSigner(tag, seed, bump) == {create_program_address(tag, seed, bump)} \ {NoAddress}

\* Mutant of InitAccount: init_if_needed, an existing record is accepted.
InitAccountIfNeeded(w, payer, acct, space, tag, seed, signers) ==
    LET pda == find_program_address(tag, seed)
        cpi_signers == signers \cup PdaSigner(tag, seed, pda.bump)
        rent == minimum_balance(space)
        required == IF rent > w.lamports[acct] THEN rent - w.lamports[acct] ELSE 0
        r1 == IF required > 0
              THEN transfer(w, payer, acct, required, cpi_signers)
              ELSE Step(w)
        r2 == IF Failed(r1) THEN r1 ELSE allocate(r1.w, acct, space, cpi_signers)
    IN  IF pda.address = NoAddress THEN Fail("DerivationExhausted", w)
        ELSE IF w.owner[acct] = VAULT_PROGRAM THEN Step(w)
        ELSE IF w.lamports[acct] = 0
             THEN create_account(w, payer, acct, rent, space, VAULT_PROGRAM, cpi_signers)
        ELSE IF Failed(r2) THEN r2
        ELSE assign(r2.w, acct, VAULT_PROGRAM, cpi_signers)

\* Mutant of InitAccount: an address that already holds lamports is still
\* sent the whole rent.
InitAccountFullRent(w, payer, acct, space, tag, seed, signers) ==
    LET pda == find_program_address(tag, seed)
        cpi_signers == signers \cup PdaSigner(tag, seed, pda.bump)
        rent == minimum_balance(space)
        r1 == transfer(w, payer, acct, rent, cpi_signers)
        r2 == IF Failed(r1) THEN r1 ELSE allocate(r1.w, acct, space, cpi_signers)
    IN  IF pda.address = NoAddress THEN Fail("DerivationExhausted", w)
        ELSE IF w.lamports[acct] = 0
             THEN create_account(w, payer, acct, rent, space, VAULT_PROGRAM, cpi_signers)
        ELSE IF Failed(r2) THEN r2
        ELSE assign(r2.w, acct, VAULT_PROGRAM, cpi_signers)

\* #[account(init, payer, space, seeds, bump)] on vault_state.
InitAccount(w, payer, acct, space, tag, seed, signers) ==
    LET pda == find_program_address(tag, seed)
        cpi_signers == signers \cup PdaSigner(tag, seed, pda.bump)
        rent == minimum_balance(space)
        required == IF rent > w.lamports[acct] THEN rent - w.lamports[acct] ELSE 0
        r1 == IF required > 0
              THEN transfer(w, payer, acct, required, cpi_signers)
              ELSE Step(w)
        r2 == IF Failed(r1) THEN r1 ELSE allocate(r1.w, acct, space, cpi_signers)
    IN  IF pda.address = NoAddress THEN Fail("DerivationExhausted", w)
        ELSE IF w.lamports[acct] = 0
             THEN create_account(w, payer, acct, rent, space, VAULT_PROGRAM, cpi_signers)
        ELSE IF Failed(r2) THEN r2
        ELSE assign(r2.w, acct, VAULT_PROGRAM, cpi_signers)

\* Mutant of CloseAccount: the lamports are moved, the account keeps its
\* owner and its data.
CloseAccountKeepData(w, acct, receiver) ==
    IF w.lamports[receiver] + w.lamports[acct] > U64_MAX
    THEN Fail("ArithmeticOverflow", w)
    ELSE Step([w EXCEPT !.lamports = [w.lamports EXCEPT
                                         ![receiver] = @ + w.lamports[acct],
                                         ![acct] = 0]])

\* Mutant of CloseAccount: the account is emptied but stays owned by the
\* program.
CloseAccountKeepOwner(w, acct, receiver) ==
    IF w.lamports[receiver] + w.lamports[acct] > U64_MAX
    THEN Fail("ArithmeticOverflow", w)
    ELSE Step([lamports |-> [w.lamports EXCEPT ![receiver] = @ + w.lamports[acct],
                                               ![acct] = 0],
               owner |-> w.owner,
               data |-> [w.data EXCEPT ![acct] = NoData]])

\* close = user: the record's lamports go to the receiver, the account is
\* handed back to the system program with no data.
CloseAccount(w, acct, receiver) ==
    IF w.lamports[receiver] + w.lamports[acct] > U64_MAX
    THEN Fail("ArithmeticOverflow", w)
    ELSE Step([lamports |-> [w.lamports EXCEPT ![receiver] = @ + w.lamports[acct],
                                               ![acct] = 0],
               owner |-> [w.owner EXCEPT ![acct] = SYSTEM_PROGRAM],
               data |-> [w.data EXCEPT ![acct] = NoData]])

\* ------------------------------------------------------------ instructions
\* Mutant of InitializeExec: the two bumps written to each other's field.
InitializeExecSwappedBumps(w, caller, user, vault_state, vault) ==
    LET bumps == [vault_state |-> find_program_address(TagState, user).bump,
                  vault |-> find_program_address(TagVault, vault_state).bump]
        r1 == SignerCheck(w, user, {caller})
        r2 == IF Failed(r1) THEN r1
              ELSE InitAccount(r1.w, user, vault_state, INIT_SPACE, TagState, user,
                               {caller})
        r3 == IF Failed(r2) THEN r2 ELSE SystemAccountCheck(r2.w, vault)
        r4 == IF Failed(r3) THEN r3
              ELSE CanonicalSeedsCheck(r3.w, vault_state, TagState, user)
        r5 == IF Failed(r4) THEN r4
              ELSE CanonicalSeedsCheck(r4.w, vault, TagVault, vault_state)
        rent_exempt == minimum_balance(data_len(r5.w.data[vault]))
        r6 == IF Failed(r5) THEN r5
              ELSE transfer(r5.w, user, vault, rent_exempt, {caller})
    IN  IF Failed(r6) THEN r6
        ELSE Step([r6.w EXCEPT !.data[vault_state] =
                       VaultStateData(bumps.vault_state, bumps.vault)])

\* Mutant of InitializeExec: the vault is sent the rent of the record's
\* size instead of the rent of its own data length.
InitializeExecStateRent(w, caller, user, vault_state, vault) ==
    LET bumps == [vault_state |-> find_program_address(TagState, user).bump,
                  vault |-> find_program_address(TagVault, vault_state).bump]
        r1 == SignerCheck(w, user, {caller})
        r2 == IF Failed(r1) THEN r1
              ELSE InitAccount(r1.w, user, vault_state, INIT_SPACE, TagState, user,
                               {caller})
        r3 == IF Failed(r2) THEN r2 ELSE SystemAccountCheck(r2.w, vault)
        r4 == IF Failed(r3) THEN r3
              ELSE CanonicalSeedsCheck(r3.w, vault_state, TagState, user)
        r5 == IF Failed(r4) THEN r4
              ELSE CanonicalSeedsCheck(r4.w, vault, TagVault, vault_state)
        rent_exempt == minimum_balance(INIT_SPACE)
        r6 == IF Failed(r5) THEN r5
              ELSE transfer(r5.w, user, vault, rent_exempt, {caller})
    IN  IF Failed(r6) THEN r6
        ELSE Step([r6.w EXCEPT !.data[vault_state] =
                       VaultStateData(bumps.vault, bumps.vault_state)])

\* initialize: Initialize<'info> validation, then Initialize::initialize.
\* `caller` is the wallet that signed the transaction.
InitializeExec(w, caller, user, vault_state, vault) ==
    LET bumps == [vault_state |-> find_program_address(TagState, user).bump,
                  vault |-> find_program_address(TagVault, vault_state).bump]
        r1 == SignerCheck(w, user, {caller})
        r2 == IF Failed(r1) THEN r1
              ELSE InitAccount(r1.w, user, vault_state, INIT_SPACE, TagState, user,
                               {caller})
        r3 == IF Failed(r2) THEN r2 ELSE SystemAccountCheck(r2.w, vault)
        r4 == IF Failed(r3) THEN r3
              ELSE CanonicalSeedsCheck(r3.w, vault_state, TagState, user)
        r5 == IF Failed(r4) THEN r4
              ELSE CanonicalSeedsCheck(r4.w, vault, TagVault, vault_state)
        rent_exempt == minimum_balance(data_len(r5.w.data[vault]))
        r6 == IF Failed(r5) THEN r5
              ELSE transfer(r5.w, user, vault, rent_exempt, {caller})
    IN  IF Failed(r6) THEN r6
        ELSE Step([r6.w EXCEPT !.data[vault_state] =
                       VaultStateData(bumps.vault, bumps.vault_state)])

\* Mutant of PaymentAccounts: vault_state without its seeds constraint.
PaymentAccountsNoStateSeeds(w, caller, user, vault_state, vault) ==
    LET r1 == SignerCheck(w, user, {caller})
        r2 == IF Failed(r1) THEN r1 ELSE AccountCheck(r1.w, vault_state)
        r3 == IF Failed(r2) THEN r2 ELSE SystemAccountCheck(r2.w, vault)
    IN  IF Failed(r3) THEN r3
        ELSE SeedsCheck(r3.w, vault, TagVault, vault_state, vault_bump(r3.w, vault_state))

\* Mutant of PaymentAccounts: vault without its seeds constraint.
PaymentAccountsNoVaultSeeds(w, caller, user, vault_state, vault) ==
    LET r1 == SignerCheck(w, user, {caller})
        r2 == IF Failed(r1) THEN r1 ELSE AccountCheck(r1.w, vault_state)
        r3 == IF Failed(r2) THEN r2 ELSE SystemAccountCheck(r2.w, vault)
    IN  IF Failed(r3) THEN r3
        ELSE SeedsCheck(r3.w, vault_state, TagState, user, state_bump(r3.w, vault_state))

\* Payment<'info> validation, shared by deposit and withdraw.
PaymentAccounts(w, caller, user, vault_state, vault) ==
    LET r1 == SignerCheck(w, user, {caller})
        r2 == IF Failed(r1) THEN r1 ELSE AccountCheck(r1.w, vault_state)
        r3 == IF Failed(r2) THEN r2 ELSE SystemAccountCheck(r2.w, vault)
        r4 == IF Failed(r3) THEN r3
              ELSE SeedsCheck(r3.w, vault_state, TagState, user, state_bump(r3.w, vault_state))
    IN  IF Failed(r4) THEN r4
        ELSE SeedsCheck(r4.w, vault, TagVault, vault_state, vault_bump(r4.w, vault_state))

\* Mutant of DepositExec: the transfer names vault_state as destination.
DepositExecToState(w, caller, user, vault_state, vault, amount) ==
    LET r1 == PaymentAccounts(w, caller, user, vault_state, vault)
    IN  IF Failed(r1) THEN r1
        ELSE transfer(r1.w, user, vault_state, amount, {caller})

\* Mutant of DepositExec: the accounts are taken unvalidated.
DepositExecUnchecked(w, caller, user, vault_state, vault, amount) ==
    LET r1 == SignerCheck(w, user, {caller})
    IN  IF Failed(r1) THEN r1
        ELSE transfer(r1.w, user, vault, amount, {caller})

\* deposit: Payment::deposit.
DepositExec(w, caller, user, vault_state, vault, amount) ==
    LET r1 == PaymentAccounts(w, caller, user, vault_state, vault)
    IN  IF Failed(r1) THEN r1
        ELSE transfer(r1.w, user, vault, amount, {caller})

\* Mutant of WithdrawExec: from and to as in deposit.
WithdrawExecReversed(w, caller, user, vault_state, vault, amount) ==
    LET r1 == PaymentAccounts(w, caller, user, vault_state, vault)
        seeds == PdaSigner(TagVault, vault_state, vault_bump(r1.w, vault_state))
    IN  IF Failed(r1) THEN r1
        ELSE transfer(r1.w, user, vault, amount, {caller} \cup seeds)

\* Mutant of WithdrawExec: a zero amount is refused.
WithdrawExecNonZero(w, caller, user, vault_state, vault, amount) ==
    LET r1 == PaymentAccounts(w, caller, user, vault_state, vault)
        seeds == PdaSigner(TagVault, vault_state, vault_bump(r1.w, vault_state))
    IN  IF Failed(r1) THEN r1
        ELSE IF amount = 0 THEN Fail("InvalidAmount", r1.w)
        ELSE transfer(r1.w, vault, user, amount, {caller} \cup seeds)

\* Mutant of WithdrawExec: the signer seeds carry the record's bump instead
\* of the vault's.
WithdrawExecStateBump(w, caller, user, vault_state, vault, amount) ==
    LET r1 == PaymentAccounts(w, caller, user, vault_state, vault)
        seeds == PdaSigner(TagVault, vault_state, state_bump(r1.w, vault_state))
    IN  IF Failed(r1) THEN r1
        ELSE transfer(r1.w, vault, user, amount, {caller} \cup seeds)

\* withdraw: Payment::withdraw, the vault signing with its seeds.
WithdrawExec(w, caller, user, vault_state, vault, amount) ==
    LET r1 == PaymentAccounts(w, caller, user, vault_state, vault)
        seeds == PdaSigner(TagVault, vault_state, vault_bump(r1.w, vault_state))
    IN  IF Failed(r1) THEN r1
        ELSE transfer(r1.w, vault, user, amount, {caller} \cup seeds)

\* Close<'info> validation: the vault is declared before vault_state.
CloseAccounts(w, caller, user, vault, vault_state) ==
    LET r1 == SignerCheck(w, user, {caller})
        r2 == IF Failed(r1) THEN r1 ELSE SystemAccountCheck(r1.w, vault)
        r3 == IF Failed(r2) THEN r2 ELSE AccountCheck(r2.w, vault_state)
        r4 == IF Failed(r3) THEN r3
              ELSE SeedsCheck(r3.w, vault, TagVault, vault_state, vault_bump(r3.w, vault_state))
    IN  IF Failed(r4) THEN r4
        ELSE SeedsCheck(r4.w, vault_state, TagState, user, state_bump(r4.w, vault_state))

\* Mutant of CloseExec: the record is closed without sweeping the vault.
CloseExecNoSweep(w, caller, user, vault, vault_state) ==
    LET r1 == CloseAccounts(w, caller, user, vault, vault_state)
    IN  IF Failed(r1) THEN r1 ELSE CloseAccount(r1.w, vault_state, user)

\* close: Close::close sweeps the vault, then `close = user` runs at exit.
CloseExec(w, caller, user, vault, vault_state) ==
    LET r1 == CloseAccounts(w, caller, user, vault, vault_state)
        pda_signing_seeds == PdaSigner(TagVault, vault_state,
                                       vault_bump(r1.w, vault_state))
        r2 == IF Failed(r1) THEN r1
              ELSE transfer(r1.w, vault, user, r1.w.lamports[vault],
                            {caller} \cup pda_signing_seeds)
    IN  IF Failed(r2) THEN r2 ELSE CloseAccount(r2.w, vault_state, user)

\* Mutant of Commit: the changes made before the error are kept.
CommitPartial(w, res) == res.w

\* -> Result<()>: Ok commits the instruction's account changes, Err discards
\* all of them.
Commit(w, res) == IF res.err = OK THEN res.w ELSE w

\* ---------------------------------------------------------------- history
\* Whether the VaultState record of `user` exists in ledger w.
RecordExists(w, user) ==
    /\ w.owner[StatePda(user)] = VAULT_PROGRAM
    /\ w.data[StatePda(user)] # NoData

\* The amounts of the walk-through Initialize, Deposit, Withdraw, Close.
ScenDeposit == MaxAmount
ScenWithdraw == MaxAmount - 2

\* The owner whose walk-through is followed.
ScenOwner == CHOOSE u \in Users : \A v \in Users : u <= v

\* Progress of ScenOwner along that walk-through: 1 after Initialize, 2
\* after the deposit, 3 after the withdrawal, 4 after Close; 0 off the path.
ScenNext(s, op, amount) ==
    IF op = "Initialize" THEN 1
    ELSE IF s = 1 /\ op = "Deposit" /\ amount = ScenDeposit THEN 2
    ELSE IF s = 2 /\ op = "Withdraw" /\ amount = ScenWithdraw THEN 3
    ELSE IF s = 3 /\ op = "Close" THEN 4
    ELSE 0

\* Whether `user` has initialized and not yet closed.  While it has,
\* `opening` is what the vault held when that Initialize began and `net` the
\* deposits less the withdrawals of the owner since; `last` keeps the two
\* as they were when the last instruction began.  `written` is what the
\* owner's latest successful Initialize left in the record, kept after Close.
NetNext(n, op, amount) ==
    IF op \in {"Initialize", "Close"} THEN 0
    ELSE IF op = "Deposit" THEN n + amount
    ELSE IF op = "Withdraw" THEN n - amount
    ELSE n

ActiveNext(a, op) ==
    IF op = "Initialize" THEN TRUE ELSE IF op = "Close" THEN FALSE ELSE a

\* One transaction holding one instruction of the program.
Apply(op, caller, user, vault_state, vault, amount, res) ==
    /\ lamports' = Commit(World, res).lamports
    /\ owner' = Commit(World, res).owner
    /\ data' = Commit(World, res).data
    /\ pre' = World
    /\ last' = [op |-> op, caller |-> caller, user |-> user,
                vault_state |-> vault_state, vault |-> vault,
                amount |-> amount, err |-> res.err,
                opening |-> opening[user], net |-> net[user],
                written |-> written[user]]
    /\ scen' = IF res.err = OK /\ user = ScenOwner
               THEN ScenNext(scen, op, amount)
               ELSE scen
    /\ net' = IF res.err = OK
              THEN [net EXCEPT ![user] = NetNext(@, op, amount)]
              ELSE net
    /\ active' = IF res.err = OK
                 THEN [active EXCEPT ![user] = ActiveNext(@, op)]
                 ELSE active
    /\ opening' = IF res.err = OK /\ op \in {"Initialize", "Close"}
                  THEN [opening EXCEPT
                          ![user] = IF op = "Initialize" THEN lamports[vault] ELSE 0]
                  ELSE opening
    /\ written' = IF res.err = OK /\ op = "Initialize"
                  THEN [written EXCEPT ![user] = res.w.data[vault_state]]
                  ELSE written

Amounts == {0, 1, MaxAmount}

\* The owner sends the instruction with the accounts derived for them.
Initialize ==
    \E user \in Users :
        Apply("Initialize", user, user, StatePda(user), VaultPda(user), 0,
              InitializeExec(World, user, user, StatePda(user), VaultPda(user)))

Deposit ==
    \E user \in Users, amount \in Amounts :
        Apply("Deposit", user, user, StatePda(user), VaultPda(user), amount,
              DepositExec(World, user, user, StatePda(user), VaultPda(user), amount))

Withdraw ==
    \E user \in Users, amount \in Amounts :
        Apply("Withdraw", user, user, StatePda(user), VaultPda(user), amount,
              WithdrawExec(World, user, user, StatePda(user), VaultPda(user), amount))

Close ==
    \E user \in Users :
        Apply("Close", user, user, StatePda(user), VaultPda(user), 0,
              CloseExec(World, user, user, VaultPda(user), StatePda(user)))

\* Any wallet sends the instruction, naming any user and any derived
\* addresses as accounts: at
\* most one of (signer, vault_state, vault) differs from what the program
\* derives for `user`, or the whole set is the one derived for another owner.
Wrong(caller, user, vault_state, vault) ==
    (IF caller # user THEN 1 ELSE 0)
    + (IF vault_state # StatePda(user) THEN 1 ELSE 0)
    + (IF vault # VaultPda(user) THEN 1 ELSE 0)

AnyInputs ==
    {i \in [caller : Users, user : Users, vault_state : Pdas, vault : Pdas] :
        \/ Wrong(i.caller, i.user, i.vault_state, i.vault) <= 1
        \/ /\ i.caller = i.user
           /\ \E o \in Users : i.vault_state = StatePda(o) /\ i.vault = VaultPda(o)}

AnyAmounts == {0, MaxAmount}

InitializeAny ==
    \E i \in AnyInputs :
        Apply("Initialize", i.caller, i.user, i.vault_state, i.vault, 0,
              InitializeExec(World, i.caller, i.user, i.vault_state, i.vault))

DepositAny ==
    \E i \in AnyInputs, amount \in AnyAmounts :
        Apply("Deposit", i.caller, i.user, i.vault_state, i.vault, amount,
              DepositExec(World, i.caller, i.user, i.vault_state, i.vault, amount))

WithdrawAny ==
    \E i \in AnyInputs, amount \in AnyAmounts :
        Apply("Withdraw", i.caller, i.user, i.vault_state, i.vault, amount,
              WithdrawExec(World, i.caller, i.user, i.vault_state, i.vault, amount))

CloseAny ==
    \E i \in AnyInputs :
        Apply("Close", i.caller, i.user, i.vault_state, i.vault, 0,
              CloseExec(World, i.caller, i.user, i.vault, i.vault_state))

\* Wallet balances: enough for both rent minimums and the largest deposit,
\* or only the record's rent.  An address that received lamports before the
\* program ran holds the rent-exempt minimum of an empty account.
RichBalance == minimum_balance(INIT_SPACE) + minimum_balance(0) + MaxAmount
PoorBalance == minimum_balance(INIT_SPACE)
Prefund == minimum_balance(0)

NoUser == NoAddress

\* The ledger before the program's first instruction: wallet[u] in the
\* wallet of u, sentState[u] and sentVault[u] at the addresses derived for u,
\* which nobody has created yet.
InitBalances(wallet, sentState, sentVault) ==
    /\ lamports = [a \in Accounts |->
                     IF a \in Users THEN wallet[a]
                     ELSE LET u == CHOOSE v \in Users : a \in {StatePda(v), VaultPda(v)}
                          IN  IF a = StatePda(u) THEN sentState[u] ELSE sentVault[u]]
    /\ owner = [a \in Accounts |-> SYSTEM_PROGRAM]
    /\ data = [a \in Accounts |-> NoData]
    /\ pre = [lamports |-> lamports, owner |-> owner, data |-> data]
    /\ last = [op |-> "None", caller |-> NoAddress, user |-> NoAddress,
               vault_state |-> NoAddress, vault |-> NoAddress,
               amount |-> 0, err |-> OK, opening |-> 0, net |-> 0,
               written |-> NoData]
    /\ scen = 0
    /\ net = [u \in Users |-> 0]
    /\ active = [u \in Users |-> FALSE]
    /\ opening = [u \in Users |-> 0]
    /\ written = [u \in Users |-> NoData]

InitLedger(wallet, sent) == InitBalances(wallet, sent, sent)

\* The ledger before the program's first instruction: nothing exists at the
\* derived addresses.  At most one owner is short of lamports, or has had
\* lamports sent to their derived addresses.
Init ==
    \E poor \in Users \cup {NoUser}, funded \in Users \cup {NoUser} :
        /\ poor = NoUser \/ funded = NoUser
        /\ InitLedger([u \in Users |-> IF u = poor THEN PoorBalance ELSE RichBalance],
                      [u \in Users |-> IF u = funded THEN Prefund ELSE 0])

InitAny ==
    InitLedger([u \in Users |-> RichBalance], [u \in Users |-> 0])

Next == Initialize \/ Deposit \/ Withdraw \/ Close

NextAny == InitializeAny \/ DepositAny \/ WithdrawAny \/ CloseAny

\* Every owner acting on their own vault.
Spec == Init /\ [][Next]_vars

\* Any caller with any accounts.
SpecAny == InitAny /\ [][NextAny]_vars

\* Every owner acting on their own vault, all wallets full.
SpecOwners == InitAny /\ [][Next]_vars

\* A vault address that already holds almost the largest u64: two lamports
\* less than U64_MAX once Initialize has added the vault's rent.
NearFull == U64_MAX - minimum_balance(0) - 1

InitOverflow ==
    \E whale \in Users :
        InitBalances([u \in Users |-> IF u = whale THEN RichBalance ELSE PoorBalance],
                     [u \in Users |-> 0],
                     [u \in Users |-> IF u = whale THEN NearFull ELSE 0])

\* Every owner acting on their own vault, one vault close to U64_MAX and
\* only its owner able to pay for Initialize.
SpecOverflow == InitOverflow /\ [][Next]_vars

\* A record address that received lamports before the program ran: less
\* than the record's rent, or one lamport more.
Overfund == minimum_balance(INIT_SPACE) + 1

InitFunded ==
    \E funded \in Users, sent \in {Prefund, Overfund} :
        InitBalances([u \in Users |-> IF u = funded THEN RichBalance ELSE PoorBalance],
                     [u \in Users |-> IF u = funded THEN sent ELSE 0],
                     [u \in Users |-> 0])

\* Every owner acting on their own vault, one record address funded early
\* and only its owner able to pay for Initialize.
SpecFunded == InitFunded /\ [][Next]_vars

\* ------------------------------------------------------------------ claims
\* The error kinds of the design, for the errors the framework and the
\* system program raise.
SpecError(err) ==
    CASE err = "AccountAlreadyInUse" -> "AlreadyInitialized"
      [] err \in {"AccountNotInitialized", "AccountOwnedByWrongProgram"} -> "VaultNotFound"
      [] err \in {"ConstraintSeeds", "AccountNotSystemOwned"} -> "BumpMismatch"
      [] err = "InsufficientLamports" -> "InsufficientFunds"
      [] OTHER -> err

LastOk == last.err = OK

\* The last instruction was sent by owner u with the accounts derived for u.
Own(u) ==
    /\ last.caller = u
    /\ last.user = u
    /\ last.vault_state = StatePda(u)
    /\ last.vault = VaultPda(u)

Unchanged == World = pre

Total(w, u) == w.lamports[u] + w.lamports[StatePda(u)] + w.lamports[VaultPda(u)]

\* C1: the record of an owner exists exactly when the owner has initialized
\* and not closed since; Initialize takes an owner from no record to a
\* record, Close from a record to none, a successful Deposit or Withdraw
\* keeps the record, and nothing else creates or deletes it.
C1_Lifecycle ==
    \A u \in Users :
        /\ RecordExists(World, u) <=> active[u]
        /\ (LastOk /\ last.user = u /\ last.op = "Initialize")
              => ~RecordExists(pre, u) /\ RecordExists(World, u)
        /\ (LastOk /\ last.user = u /\ last.op = "Close")
              => RecordExists(pre, u) /\ ~RecordExists(World, u)
        /\ (LastOk /\ last.user = u /\ last.op \in {"Deposit", "Withdraw"})
              => RecordExists(pre, u) /\ RecordExists(World, u)
        /\ (~LastOk \/ last.user # u)
              => (RecordExists(pre, u) <=> RecordExists(World, u))

C1_Witness ==
    \E u \in Users, v \in Users :
        /\ last.op = "Close" /\ LastOk /\ last.user = u
        /\ pre.lamports[VaultPda(u)] > 0
        /\ ~RecordExists(World, u)
        /\ v # u /\ RecordExists(World, v)

\* C2: a Withdraw by the owner of an existing vault for more than the vault
\* holds fails with InsufficientFunds and changes no balance and no record.
C2_WithdrawTooMuch ==
    \A u \in Users :
        (/\ last.op = "Withdraw" /\ Own(u)
         /\ RecordExists(pre, u)
         /\ last.amount > pre.lamports[VaultPda(u)])
        => SpecError(last.err) = "InsufficientFunds" /\ Unchanged

C2_Witness ==
    \E u \in Users :
        /\ last.op = "Withdraw" /\ Own(u)
        /\ RecordExists(pre, u)
        /\ pre.lamports[VaultPda(u)] > 0
        /\ last.amount > pre.lamports[VaultPda(u)]

\* C3: a successful Deposit moves exactly `amount` from the caller to the
\* vault and nothing else, so their sum is kept; a Deposit on an existing
\* vault by a caller holding less than `amount` fails with InsufficientFunds
\* and moves nothing.
C3_Deposit ==
    \A u \in Users :
        /\ (last.op = "Deposit" /\ LastOk /\ last.user = u)
             => /\ lamports[VaultPda(u)] = pre.lamports[VaultPda(u)] + last.amount
                /\ lamports[u] = pre.lamports[u] - last.amount
                /\ lamports[u] + lamports[VaultPda(u)]
                     = pre.lamports[u] + pre.lamports[VaultPda(u)]
                /\ \A a \in Accounts \ {u, VaultPda(u)} : lamports[a] = pre.lamports[a]
                /\ owner = pre.owner /\ data = pre.data
        /\ (/\ last.op = "Deposit" /\ Own(u)
             /\ RecordExists(pre, u)
             /\ pre.lamports[u] < last.amount)
             => SpecError(last.err) = "InsufficientFunds" /\ Unchanged

C3_Witness ==
    \E u \in Users :
        /\ last.op = "Deposit" /\ LastOk /\ Own(u)
        /\ last.amount > 0
        /\ lamports[VaultPda(u)] = pre.lamports[VaultPda(u)] + last.amount

\* C4: a successful Close gives the caller everything the vault held and
\* everything the record held, leaves the vault at 0 and the record deleted;
\* a Close that fails leaves vault and record as they were.
C4_Close ==
    \A u \in Users :
        /\ (last.op = "Close" /\ LastOk /\ last.user = u)
             => /\ lamports[u] = pre.lamports[u] + pre.lamports[VaultPda(u)]
                                   + pre.lamports[StatePda(u)]
                /\ lamports[VaultPda(u)] = 0
                /\ lamports[StatePda(u)] = 0
                /\ pre.lamports[StatePda(u)] >= minimum_balance(INIT_SPACE)
                /\ RecordExists(pre, u) /\ ~RecordExists(World, u)
        /\ (last.op = "Close" /\ ~LastOk) => Unchanged

C4_Witness ==
    \E u \in Users :
        /\ last.op = "Close" /\ LastOk /\ Own(u)
        /\ pre.lamports[VaultPda(u)] > minimum_balance(0)
        /\ lamports[VaultPda(u)] = 0
        /\ ~RecordExists(World, u)

\* What the last instruction took out of the vault of u.
Swept(u) == pre.lamports[VaultPda(u)] - lamports[VaultPda(u)]

\* C5 as stated: after Initialize, Deposit(ScenDeposit), Withdraw(ScenWithdraw)
\* and Close, the Close moved exactly ScenDeposit - ScenWithdraw (the total
\* deposited less the total withdrawn) out of the vault, the record is
\* gone, and a following Withdraw of 1 fails with VaultNotFound.
C5_Original ==
    /\ (scen = 4 /\ last.op = "Close" /\ LastOk /\ last.user = ScenOwner)
         => /\ Swept(ScenOwner) = ScenDeposit - ScenWithdraw
            /\ ~RecordExists(World, ScenOwner)
    /\ (scen = 4 /\ last.op = "Withdraw" /\ Own(ScenOwner) /\ last.amount = 1)
         => SpecError(last.err) = "VaultNotFound"

\* C5 amended: a Close moves out of the vault the deposits less the
\* withdrawals since Initialize plus what the vault held after Initialize,
\* that is the rent-exempt minimum Initialize transferred into it and
\* whatever the vault address held before; in the walk-through that is
\* ScenDeposit - ScenWithdraw plus those two.  The record is gone and a
\* following Withdraw of 1 fails with VaultNotFound, changing nothing.
C5_Walkthrough ==
    /\ \A u \in Users :
          (last.op = "Close" /\ LastOk /\ last.user = u)
          => /\ Swept(u) = last.net + minimum_balance(0) + last.opening
             /\ lamports[VaultPda(u)] = 0
             /\ ~RecordExists(World, u)
    /\ (scen = 4 /\ last.op = "Close" /\ LastOk /\ last.user = ScenOwner)
         => /\ last.net = ScenDeposit - ScenWithdraw
            /\ Swept(ScenOwner) = ScenDeposit - ScenWithdraw
                                    + minimum_balance(0) + last.opening
    /\ \A u \in Users :
          (~active[u] /\ last.op = "Withdraw" /\ Own(u) /\ last.amount = 1)
          => /\ SpecError(last.err) = "VaultNotFound"
             /\ ~RecordExists(World, u)
             /\ Unchanged

C5_Witness ==
    /\ scen = 4
    /\ last.op = "Withdraw" /\ Own(ScenOwner) /\ last.amount = 1
    /\ ~LastOk
    /\ ~RecordExists(World, ScenOwner)
    /\ lamports[VaultPda(ScenOwner)] = 0

\* C6: Deposit, Withdraw and Close sent by an owner who has no record fail
\* with VaultNotFound and leave every balance and the missing record as
\* they were.
C6_Uninitialized ==
    \A u \in Users :
        (/\ last.op \in {"Deposit", "Withdraw", "Close"}
         /\ Own(u)
         /\ ~RecordExists(pre, u))
        => /\ SpecError(last.err) = "VaultNotFound"
           /\ Unchanged
           /\ ~RecordExists(World, u)

C6_Witness ==
    /\ last.op = "Close" /\ Own(ScenOwner)
    /\ ~RecordExists(pre, ScenOwner)
    /\ scen = 4
    /\ last.err = "AccountNotInitialized"

\* C7: Initialize sent by an owner whose record exists fails with
\* AlreadyInitialized; the stored bumps and every balance stay as they were.
C7_InitializeTwice ==
    \A u \in Users :
        (last.op = "Initialize" /\ Own(u) /\ RecordExists(pre, u))
        => /\ SpecError(last.err) = "AlreadyInitialized"
           /\ data[StatePda(u)] = pre.data[StatePda(u)]
           /\ lamports[VaultPda(u)] = pre.lamports[VaultPda(u)]
           /\ lamports[u] = pre.lamports[u]
           /\ Unchanged

C7_Witness ==
    \E u \in Users :
        /\ last.op = "Initialize" /\ Own(u) /\ RecordExists(pre, u)
        /\ pre.lamports[u] >= minimum_balance(INIT_SPACE) + minimum_balance(0)
        /\ last.err = "AccountAlreadyInUse"

\* The vault balance and the record of owner o are as before the last
\* instruction.
SameVault(o) ==
    /\ lamports[VaultPda(o)] = pre.lamports[VaultPda(o)]
    /\ lamports[StatePda(o)] = pre.lamports[StatePda(o)]
    /\ owner[StatePda(o)] = pre.owner[StatePda(o)]
    /\ data[StatePda(o)] = pre.data[StatePda(o)]

\* C8: an instruction changes the vault balance or the record of owner o
\* only if o signed it and named as user, with the record and vault
\* addresses derived for o.
C8_OwnerOnly ==
    \A o \in Users : ~SameVault(o) => LastOk /\ Own(o)

C8_Witness ==
    \E o \in Users, c \in Users :
        /\ c # o
        /\ last.op = "Withdraw" /\ last.caller = c /\ last.user = c
        /\ last.vault_state = StatePda(o) /\ last.vault = VaultPda(o)
        /\ RecordExists(pre, o) /\ RecordExists(pre, c)
        /\ last.amount > 0 /\ last.amount <= pre.lamports[VaultPda(o)]
        /\ SameVault(o)

\* C9: Deposit, Withdraw and Close sent by the owner of an existing record
\* with a vault account other than the derived one fail with BumpMismatch
\* and change nothing, whatever the amount.
C9_WrongVault ==
    \A u \in Users :
        (/\ last.op \in {"Deposit", "Withdraw", "Close"}
         /\ last.caller = u /\ last.user = u
         /\ last.vault_state = StatePda(u)
         /\ RecordExists(pre, u)
         /\ last.vault # VaultPda(u))
        => SpecError(last.err) = "BumpMismatch" /\ Unchanged

C9_Witness ==
    \E u \in Users :
        /\ last.op = "Withdraw"
        /\ last.caller = u /\ last.user = u
        /\ last.vault_state = StatePda(u)
        /\ RecordExists(pre, u)
        /\ last.vault # VaultPda(u)
        /\ last.amount > pre.lamports[VaultPda(u)]
        /\ last.amount > pre.lamports[last.vault]
        /\ last.err = "ConstraintSeeds"

DerivedBumps(u) ==
    VaultStateData(find_program_address(TagVault, StatePda(u)).bump,
                   find_program_address(TagState, u).bump)

\* C11: while a record exists its two bumps are the ones derivation returns
\* for ("vault", record address) and ("state", owner); no instruction changes
\* the contents of a record that exists before and after it, and a Deposit
\* or Withdraw, failed or not, whoever sends it, changes no record at all.
C11_BumpsImmutable ==
    /\ \A u \in Users :
          /\ RecordExists(World, u) => data[StatePda(u)] = DerivedBumps(u)
          /\ (RecordExists(pre, u) /\ RecordExists(World, u))
                => data[StatePda(u)] = pre.data[StatePda(u)]
    /\ last.op \in {"Deposit", "Withdraw"} => data = pre.data /\ owner = pre.owner

C11_Witness ==
    \E u \in Users :
        /\ last.op = "Withdraw" /\ LastOk /\ Own(u)
        /\ last.amount > 0
        /\ vault_bump(World, StatePda(u)) # state_bump(World, StatePda(u))
        /\ data[StatePda(u)] = DerivedBumps(u)

\* The result of owner u sending instruction op with the accounts derived
\* for u, on ledger w.
RunOwn(w, op, u, amount) ==
    CASE op = "Initialize" -> InitializeExec(w, u, u, StatePda(u), VaultPda(u))
      [] op = "Deposit" -> DepositExec(w, u, u, StatePda(u), VaultPda(u), amount)
      [] op = "Withdraw" -> WithdrawExec(w, u, u, StatePda(u), VaultPda(u), amount)
      [] op = "Close" -> CloseExec(w, u, u, VaultPda(u), StatePda(u))

Ops == {"Initialize", "Deposit", "Withdraw", "Close"}

\* The wallet, record and vault of owner o are the same in ledgers w1, w2.
SameFamily(w1, w2, o) ==
    \A a \in {o, StatePda(o), VaultPda(o)} :
        /\ w1.lamports[a] = w2.lamports[a]
        /\ w1.owner[a] = w2.owner[a]
        /\ w1.data[a] = w2.data[a]

\* C12: an instruction of one owner leaves the wallet, the vault and the
\* record of every other owner as they were, and it commutes with every
\* instruction of another owner: run in either order from the same ledger,
\* both instructions return the same results and leave the same ledger.
C12_OwnersIndependent ==
    \A u \in Users :
        (last.op \in Ops /\ Own(u)) =>
            \A o \in Users \ {u} :
                /\ SameFamily(World, pre, o)
                /\ \A op \in Ops, amount \in Amounts :
                      LET otherFirst == RunOwn(pre, op, o, amount)
                          otherAfter == RunOwn(World, op, o, amount)
                          lastAfter == RunOwn(Commit(pre, otherFirst), last.op, u,
                                              last.amount)
                      IN  /\ otherAfter.err = otherFirst.err
                          /\ lastAfter.err = last.err
                          /\ Commit(World, otherAfter)
                               = Commit(Commit(pre, otherFirst), lastAfter)

C12_Witness ==
    \E u \in Users, o \in Users :
        /\ u # o
        /\ last.op = "Close" /\ LastOk /\ Own(u)
        /\ pre.lamports[VaultPda(u)] > minimum_balance(0)
        /\ RecordExists(World, o)
        /\ lamports[VaultPda(o)] > minimum_balance(0)
        /\ ~Failed(RunOwn(World, "Withdraw", o, MaxAmount))

\* C13: on an existing vault, in whatever state the owner's instructions
\* have left it, a Deposit of 0 and a Withdraw of 0 by the owner have the
\* same outcome, both accepted or both refused, and an executed Deposit or
\* Withdraw of 0 changes no balance.
C13_ZeroAmount ==
    /\ \A u \in Users :
          (LastOk /\ Own(u) /\ RecordExists(World, u)) =>
              (Failed(RunOwn(World, "Deposit", u, 0))
                 <=> Failed(RunOwn(World, "Withdraw", u, 0)))
    /\ (last.op \in {"Deposit", "Withdraw"} /\ last.amount = 0)
          => lamports = pre.lamports

\* Both are accepted, also with an empty wallet or an empty vault.
C13_Witness ==
    \E u \in Users :
        /\ last.op = "Withdraw" /\ last.amount = 0 /\ Own(u) /\ LastOk
        /\ RecordExists(pre, u)
        /\ pre.lamports[VaultPda(u)] = 0
        /\ ~Failed(RunOwn(World, "Deposit", u, 0))
        /\ Unchanged

\* C14: a Deposit by the owner of an existing vault, of an amount the wallet
\* holds and that would take the vault above the largest u64, fails with
\* ArithmeticOverflow and changes no balance; no balance ever leaves the
\* range of u64.
C14_DepositOverflow ==
    /\ \A u \in Users :
          (/\ last.op = "Deposit" /\ Own(u)
           /\ RecordExists(pre, u)
           /\ last.amount <= pre.lamports[u]
           /\ pre.lamports[VaultPda(u)] + last.amount > U64_MAX)
          => /\ SpecError(last.err) = "ArithmeticOverflow"
             /\ Unchanged
    /\ \A a \in Accounts : lamports[a] \in 0..U64_MAX

C14_Witness ==
    \E u \in Users :
        /\ last.op = "Deposit" /\ Own(u)
        /\ RecordExists(pre, u)
        /\ last.amount <= pre.lamports[u]
        /\ pre.lamports[VaultPda(u)] <= U64_MAX
        /\ pre.lamports[VaultPda(u)] + last.amount > U64_MAX
        /\ last.err = "ArithmeticOverflow"
        /\ lamports[VaultPda(u)] = pre.lamports[VaultPda(u)]
        /\ lamports[u] = pre.lamports[u]

\* What Initialize takes from the wallet of owner u on ledger w: the
\* record's rent less what its address already holds, and the vault's rent.
InitializeCost(w, u) ==
    (IF minimum_balance(INIT_SPACE) > w.lamports[StatePda(u)]
     THEN minimum_balance(INIT_SPACE) - w.lamports[StatePda(u)]
     ELSE 0)
    + minimum_balance(0)

\* C15: after a successful Close, however many times the owner has
\* initialized and closed before, no record exists, the wallet covers the
\* rent and Initialize by the owner succeeds again; the bumps a repeated
\* Initialize writes are those the previous Initialize wrote.
C15_Reinitialize ==
    \A u \in Users :
        /\ (last.op = "Close" /\ LastOk /\ Own(u))
           => /\ written[u] # NoData
              /\ ~RecordExists(World, u)
              /\ lamports[u] >= InitializeCost(World, u)
              /\ ~Failed(RunOwn(World, "Initialize", u, 0))
        /\ (last.op = "Initialize" /\ LastOk /\ Own(u) /\ last.written # NoData)
           => data[StatePda(u)] = last.written

C15_Witness ==
    \E u \in Users :
        /\ last.op = "Initialize" /\ LastOk /\ Own(u)
        /\ last.written # NoData
        /\ ~RecordExists(pre, u)
        /\ RecordExists(World, u)
        /\ data[StatePda(u)] = last.written
        /\ written[u] = last.written

\* C16 as stated: a successful Initialize leaves the record holding exactly
\* its rent-exempt minimum, all of it (and the vault's rent) taken from the
\* caller.
C16_Original ==
    \A u \in Users :
        (last.op = "Initialize" /\ LastOk /\ Own(u)) =>
            /\ RecordExists(World, u)
            /\ lamports[StatePda(u)] = minimum_balance(INIT_SPACE)
            /\ pre.lamports[u] - lamports[u]
                 = minimum_balance(INIT_SPACE) + minimum_balance(0)
            /\ data[StatePda(u)] = DerivedBumps(u)

\* C16: a successful Initialize creates the record at the address derived
\* from ("state", owner) with the derived bumps; the record then holds the
\* larger of its rent-exempt minimum and what its address held before, and
\* the caller has paid only the shortfall (besides the vault's rent).  A
\* record that exists always holds at least its rent-exempt minimum.
C16_RecordRent ==
    \A u \in Users :
        /\ (last.op = "Initialize" /\ LastOk /\ Own(u)) =>
              /\ RecordExists(World, u)
              /\ lamports[StatePda(u)]
                   = (IF pre.lamports[StatePda(u)] > minimum_balance(INIT_SPACE)
                      THEN pre.lamports[StatePda(u)]
                      ELSE minimum_balance(INIT_SPACE))
              /\ pre.lamports[u] - lamports[u] = InitializeCost(pre, u)
              /\ data[StatePda(u)] = DerivedBumps(u)
        /\ RecordExists(World, u)
              => lamports[StatePda(u)] >= minimum_balance(INIT_SPACE)

C16_Witness ==
    \E u \in Users :
        /\ last.op = "Initialize" /\ LastOk /\ Own(u)
        /\ RecordExists(World, u)
        /\ pre.lamports[StatePda(u)] > 0
        /\ pre.lamports[u] - lamports[u]
             < minimum_balance(INIT_SPACE) + minimum_balance(0)
        /\ lamports[StatePda(u)] >= minimum_balance(INIT_SPACE)

\* C17: two distinct owners never share a record address or a vault
\* address; at every point of any instruction sequence the bumps stored in
\* an existing record derive again the owner's record address and vault
\* address, and every instruction that succeeds for an owner ran on exactly
\* those two addresses.
C17_DerivationUnique ==
    /\ \A u \in Users, v \in Users :
          u # v => {StatePda(u), VaultPda(u)} \cap {StatePda(v), VaultPda(v)} = {}
    /\ \A u \in Users :
          /\ find_program_address(TagState, u).address # NoAddress
          /\ find_program_address(TagVault, StatePda(u)).address # NoAddress
          /\ RecordExists(World, u) =>
                /\ create_program_address(TagState, u, state_bump(World, StatePda(u)))
                     = StatePda(u)
                /\ create_program_address(TagVault, StatePda(u),
                                          vault_bump(World, StatePda(u)))
                     = VaultPda(u)
    /\ (LastOk /\ last.op \in Ops) =>
          /\ last.vault_state = find_program_address(TagState, last.user).address
          /\ last.vault = find_program_address(TagVault, last.vault_state).address

C17_Witness ==
    \E u \in Users, v \in Users :
        /\ u # v
        /\ RecordExists(World, u) /\ RecordExists(World, v)
        /\ last.op = "Deposit" /\ LastOk /\ Own(v) /\ last.amount > 0
        /\ StatePda(u) # StatePda(v) /\ VaultPda(u) # VaultPda(v)
        /\ lamports[VaultPda(u)] # lamports[VaultPda(v)]

\* The lamports of all wallets, records and vaults of ledger w.
RECURSIVE SumTotals(_, _)
SumTotals(w, owners) ==
    IF owners = {} THEN 0
    ELSE LET u == CHOOSE v \in owners : TRUE
         IN  Total(w, u) + SumTotals(w, owners \ {u})

\* C18: every instruction, successful or failed, leaves the sum of all
\* wallet, vault and record balances as it was; every balance stays within
\* u64; a Withdraw moves the amount only if the vault holds it, and a Close
\* moves exactly what the vault and the record hold.
C18_Conservation ==
    /\ SumTotals(World, Users) = SumTotals(pre, Users)
    /\ \A a \in Accounts : lamports[a] \in 0..U64_MAX
    /\ \A u \in Users :
          /\ (last.op = "Withdraw" /\ LastOk /\ Own(u)) =>
                /\ last.amount <= pre.lamports[VaultPda(u)]
                /\ pre.lamports[VaultPda(u)] - lamports[VaultPda(u)] = last.amount
                /\ lamports[u] - pre.lamports[u] = last.amount
          /\ (last.op = "Close" /\ LastOk /\ Own(u)) =>
                /\ lamports[VaultPda(u)] = 0
                /\ lamports[u] - pre.lamports[u]
                     = pre.lamports[VaultPda(u)] + pre.lamports[StatePda(u)]

C18_Witness ==
    \E u \in Users, v \in Users :
        /\ u # v
        /\ last.op = "Withdraw" /\ LastOk /\ Own(u)
        /\ last.amount = pre.lamports[VaultPda(u)]
        /\ last.amount > minimum_balance(0)
        /\ lamports[VaultPda(u)] = 0
        /\ RecordExists(World, v)
        /\ SumTotals(World, Users) = SumTotals(pre, Users)

\* C19: a successful Initialize leaves the vault holding what it held
\* before plus the rent-exempt minimum of the vault's data length, taken
\* from the caller; right after Initialize a Withdraw of that minimum
\* succeeds, and a Close returns it to the owner with the rest of the vault.
C19_VaultFunded ==
    \A u \in Users :
        (last.op = "Initialize" /\ LastOk /\ Own(u)) =>
            LET rent_exempt == minimum_balance(data_len(pre.data[VaultPda(u)]))
                withdrawn == RunOwn(World, "Withdraw", u, rent_exempt)
                closed == RunOwn(World, "Close", u, 0)
            IN  /\ rent_exempt > 0
                /\ lamports[VaultPda(u)] = pre.lamports[VaultPda(u)] + rent_exempt
                /\ pre.lamports[u] - lamports[u]
                     = rent_exempt + (lamports[StatePda(u)] - pre.lamports[StatePda(u)])
                /\ ~Failed(withdrawn)
                /\ withdrawn.w.lamports[u] = lamports[u] + rent_exempt
                /\ withdrawn.w.lamports[VaultPda(u)] = pre.lamports[VaultPda(u)]
                /\ ~Failed(closed)
                /\ closed.w.lamports[VaultPda(u)] = 0
                /\ closed.w.lamports[u]
                     = lamports[u] + pre.lamports[VaultPda(u)] + rent_exempt
                         + lamports[StatePda(u)]

\* The owner took the vault's rent out again with Withdraw.
C19_Witness ==
    \E u \in Users :
        /\ last.op = "Withdraw" /\ LastOk /\ Own(u)
        /\ last.net = 0 /\ last.opening = 0
        /\ last.amount = minimum_balance(0)
        /\ pre.lamports[VaultPda(u)] = minimum_balance(0)
        /\ lamports[VaultPda(u)] = 0
        /\ lamports[u] = pre.lamports[u] + minimum_balance(0)

\* C20: whoever sends a Withdraw or a Close with whatever accounts, the
\* transfer out of the vault is never refused for a missing signature; when
\* the instruction succeeds, the seeds ("vault", supplied record address,
\* stored vault_bump) sign for exactly the supplied vault, which is the
\* vault derived for the signing owner, and no other owner's vault and no
\* account beside that vault (and, for Close, the record) loses lamports.
C20_SignerSeeds ==
    last.op \in {"Withdraw", "Close"} =>
        /\ last.err # "MissingRequiredSignature"
        /\ LastOk =>
              /\ PdaSigner(TagVault, last.vault_state,
                           vault_bump(pre, last.vault_state)) = {last.vault}
              /\ Own(last.user)
              /\ \A o \in Users \ {last.user} :
                    lamports[VaultPda(o)] = pre.lamports[VaultPda(o)]
              /\ \A a \in Accounts :
                    lamports[a] < pre.lamports[a]
                        => \/ a = last.vault
                           \/ last.op = "Close" /\ a = last.vault_state

C20_Witness ==
    \E u \in Users, o \in Users :
        /\ u # o
        /\ last.op = "Withdraw" /\ LastOk /\ Own(u)
        /\ last.amount > 0
        /\ vault_bump(pre, StatePda(u)) # state_bump(pre, StatePda(u))
        /\ lamports[VaultPda(u)] < pre.lamports[VaultPda(u)]
        /\ RecordExists(World, o)
        /\ lamports[VaultPda(o)] >= last.amount

====
